---- MODULE Spec2Model ----
(***************************************************************************)
(* Model of database/identity.go: the identity store of blnk.              *)
(* The table blnk.identity is the variable rows; each handler of           *)
(* Datasource (CreateIdentity, GetIdentityByID, GetAllIdentities,          *)
(* UpdateIdentity, DeleteIdentity) is one action that runs the whole       *)
(* handler and records the call, what it returned, the statements it sent  *)
(* to the connection and the calls it made on its transaction.             *)
(***************************************************************************)
EXTENDS Integers, Sequences, FiniteSets, TLC

VARIABLES
    rows,      \* the table blnk.identity: identity_id -> row
    nextId,    \* the next identifier the generator hands out
    clock,     \* the reading time.Now() gives
    deleted,   \* identifiers whose DeleteIdentity returned nil (history)
    fresh,     \* identifier -> the identity CreateIdentity returned for it,
               \* until an UpdateIdentity or DeleteIdentity names it (history)
    op,        \* the handler that has just returned, "idle" between calls
    req,       \* its input: [id, identity, fault]
    err,       \* the class of the error it returned ("nil" for none)
    ret,       \* the value it returned: [ptr, val, list]
    stmts,     \* the statements it sent to the connection, in order
    txLog      \* the calls it made on the transaction, in order

vars == <<rows, nextId, clock, deleted, fresh, op, req, err, ret, stmts, txLog>>

----------------------------------------------------------------------------
(* Bounds *)

MaxIds == 2        \* identifiers generated in one behaviour
MaxTime == 2       \* the clock reads 1..MaxTime

----------------------------------------------------------------------------
(* Go values *)

\* An interface{} value: its dynamic type and its value.
Iface(t, v) == [type |-> t, v |-> v]

ZeroTime == 0

\* The string-typed fields of model.Identity as UpdateIdentity passes them to
\* addField, each with its column, in the order of the calls; DOB is the
\* sixth call.
FieldOrder ==
    << <<"IdentityType", "identity_type">>,
       <<"FirstName", "first_name">>,
       <<"LastName", "last_name">>,
       <<"OtherNames", "other_names">>,
       <<"Gender", "gender">>,
       <<"DOB", "dob">>,
       <<"EmailAddress", "email_address">>,
       <<"PhoneNumber", "phone_number">>,
       <<"Nationality", "nationality">>,
       <<"OrganizationName", "organization_name">>,
       <<"Category", "category">>,
       <<"Street", "street">>,
       <<"Country", "country">>,
       <<"State", "state">>,
       <<"PostCode", "post_code">>,
       <<"City", "city">> >>

StringFields == {FieldOrder[i][1] : i \in 1..Len(FieldOrder)} \ {"DOB"}

\* The static type of a field of model.Identity.
GoType(f) == IF f = "DOB" THEN "time.Time" ELSE "string"

\* A map[string]interface{}: nil, or a mapping from keys to Go values.
EmptyKV == [k \in {} |-> Iface("string", "")]
NilMap == [isNil |-> TRUE, kv |-> EmptyKV]
MakeMap(kv) == [isNil |-> FALSE, kv |-> kv]

\* The zero value of model.Identity.
ZeroIdentity ==
    [IdentityID |-> 0, IdentityType |-> "", FirstName |-> "", LastName |-> "",
     OtherNames |-> "", Gender |-> "", DOB |-> ZeroTime, EmailAddress |-> "",
     PhoneNumber |-> "", Nationality |-> "", OrganizationName |-> "",
     Category |-> "", Street |-> "", Country |-> "", State |-> "",
     PostCode |-> "", City |-> "", CreatedAt |-> ZeroTime, MetaData |-> NilMap]

----------------------------------------------------------------------------
(* encoding/json on map[string]interface{} *)

NullDoc == [kind |-> "null", members |-> EmptyKV]
InvalidDoc == [kind |-> "invalid", members |-> EmptyKV]

\* The JSON value json.Marshal writes for a Go value: every Go number is
\* written as a JSON number, a string as a JSON string.
JSONOf(g) ==
    IF g.type \in {"int", "float64"} THEN Iface("number", g.v)
    ELSE Iface("string", g.v)

\* json.Marshal of a map: null for a nil map, an object otherwise; a value
\* of a type JSON cannot carry (a channel) makes it fail.
Marshal(m) ==
    IF m.isNil THEN [ok |-> TRUE, doc |-> NullDoc]
    ELSE IF \E k \in DOMAIN m.kv : m.kv[k].type = "chan"
         THEN [ok |-> FALSE, doc |-> InvalidDoc]
         ELSE [ok |-> TRUE,
               doc |-> [kind |-> "object",
                        members |-> [k \in DOMAIN m.kv |-> JSONOf(m.kv[k])]]]

\* The Go value json.Unmarshal stores in an interface{} for a JSON value:
\* float64 for a number, string for a string.
GoOf(j) ==
    IF j.type = "number" THEN Iface("float64", j.v) ELSE Iface("string", j.v)

\* json.Unmarshal into the nil MetaData of a fresh model.Identity: null
\* leaves the map nil, an object makes a map, anything else is an error.
Unmarshal(doc) ==
    CASE doc.kind = "null" -> [ok |-> TRUE, val |-> NilMap]
      [] doc.kind = "object" ->
            [ok |-> TRUE,
             val |-> MakeMap([k \in DOMAIN doc.members |-> GoOf(doc.members[k])])]
      [] OTHER -> [ok |-> FALSE, val |-> NilMap]

----------------------------------------------------------------------------
(* Statements and the table *)

\* The columns of the INSERT statement, in its order.
InsertCols ==
    <<"identity_id", "identity_type", "first_name", "last_name", "other_names",
      "gender", "dob", "email_address", "phone_number", "nationality",
      "organization_name", "category", "street", "country", "state",
      "post_code", "city", "created_at", "meta_data">>

\* The fields of the identity CreateIdentity passes as $1..$18; $19 is the
\* marshalled metadata.
InsertFields ==
    <<"IdentityID", "IdentityType", "FirstName", "LastName", "OtherNames",
      "Gender", "DOB", "EmailAddress", "PhoneNumber", "Nationality",
      "OrganizationName", "Category", "Street", "Country", "State",
      "PostCode", "City", "CreatedAt">>

\* The columns of the SELECT statements, in their order.
SelectCols ==
    <<"identity_id", "identity_type", "first_name", "last_name", "other_names",
      "gender", "dob", "email_address", "phone_number", "nationality",
      "organization_name", "category", "street", "country", "state",
      "post_code", "city", "created_at", "meta_data">>

\* Scan with the destinations FirstName and LastName exchanged.
ScanDestSwapped ==
    <<"IdentityID", "IdentityType", "LastName", "FirstName", "OtherNames",
      "Gender", "DOB", "EmailAddress", "PhoneNumber", "Nationality",
      "OrganizationName", "Category", "Street", "Country", "State",
      "PostCode", "City", "CreatedAt", "metaDataJSON">>

\* The destinations of Scan, in its order; the last one is metaDataJSON.
ScanDest ==
    <<"IdentityID", "IdentityType", "FirstName", "LastName", "OtherNames",
      "Gender", "DOB", "EmailAddress", "PhoneNumber", "Nationality",
      "OrganizationName", "Category", "Street", "Country", "State",
      "PostCode", "City", "CreatedAt", "metaDataJSON">>

Columns == {InsertCols[i] : i \in 1..Len(InsertCols)}

Stmt(kind, cols, set, where, args) ==
    [kind |-> kind, cols |-> cols, set |-> set, where |-> where, args |-> args]

\* INSERT INTO blnk.identity (cols) VALUES ($1..$19): one new row, column i
\* taking argument i.
ExecInsert(table, q) ==
    LET row == [c \in Columns |->
                  q.args[CHOOSE i \in 1..Len(q.cols) : q.cols[i] = c].v]
    IN  [i \in DOMAIN table \cup {row.identity_id} |->
           IF i = row.identity_id THEN row ELSE table[i]]

\* A statement the server accepts: a SET list that is not empty and
\* placeholders that all have an argument.
ValidUpdate(q) ==
    /\ Len(q.set) > 0
    /\ Len(q.args) = Len(q.set) + 1
    /\ q.where \in 1..Len(q.args)
    /\ \A i \in 1..Len(q.set) : q.set[i].ph \in 1..Len(q.args)

\* UPDATE blnk.identity SET col = $ph, ... WHERE identity_id = $where:
\* every row with that identity_id gets the listed columns overwritten (a
\* column listed twice keeps the last assignment); affected counts them.
ExecUpdate(table, q) ==
    LET id == q.args[q.where].v
        Last(c) == CHOOSE i \in 1..Len(q.set) :
                      /\ q.set[i].col = c
                      /\ \A j \in (i+1)..Len(q.set) : q.set[j].col # c
        Upd(row) == [c \in Columns |->
                       IF \E i \in 1..Len(q.set) : q.set[i].col = c
                       THEN q.args[q.set[Last(c)].ph].v
                       ELSE row[c]]
    IN  IF id \in DOMAIN table
        THEN [table |-> [i \in DOMAIN table |->
                           IF i = id THEN Upd(table[i]) ELSE table[i]],
              affected |-> 1]
        ELSE [table |-> table, affected |-> 0]

\* DELETE FROM blnk.identity WHERE identity_id = $1.
ExecDelete(table, id) ==
    IF id \in DOMAIN table
    THEN [table |-> [i \in DOMAIN table \ {id} |-> table[i]], affected |-> 1]
    ELSE [table |-> table, affected |-> 0]

\* The sequences of the identifiers of S, each once.
Perms(S) ==
    {p \in [1..Cardinality(S) -> S] :
        \A i, j \in 1..Cardinality(S) : i # j => p[i] # p[j]}

\* The query with ORDER BY created_at ASC.
QueryAllAscending(table) ==
    {p \in Perms(DOMAIN table) :
        \A i \in 1..(Len(p) - 1) :
            table[p[i]].created_at <= table[p[i+1]].created_at}

\* SELECT ... ORDER BY created_at DESC: every order of the rows in which
\* created_at never increases (the server orders equal keys as it likes).
QueryAll(table) ==
    {p \in Perms(DOMAIN table) :
        \A i \in 1..(Len(p) - 1) :
            table[p[i]].created_at >= table[p[i+1]].created_at}

\* Scan of one result row of a SELECT into a fresh model.Identity and
\* metaDataJSON: destination i receives column i.
Scan(row) ==
    LET At(d) == row[SelectCols[CHOOSE i \in 1..Len(ScanDest) : ScanDest[i] = d]]
    IN  [identity |-> [f \in DOMAIN ZeroIdentity |->
                          IF f = "MetaData" THEN NilMap ELSE At(f)],
         metaDataJSON |-> At("metaDataJSON")]

----------------------------------------------------------------------------
(* UpdateIdentity: building the statement *)

\* What UpdateIdentity has built so far: setFields, args, argPosition.
NoFields == [setFields |-> <<>>, args |-> <<>>, argPosition |-> 1]

\* AppendField without the increment of argPosition.
AppendFieldNoIncrement(acc, value, fieldName) ==
    [setFields |-> Append(acc.setFields,
                          [col |-> fieldName, ph |-> acc.argPosition]),
     args |-> Append(acc.args, value),
     argPosition |-> acc.argPosition]

\* The three appends and the increment every branch of addField makes.
AppendField(acc, value, fieldName) ==
    [setFields |-> Append(acc.setFields,
                          [col |-> fieldName, ph |-> acc.argPosition]),
     args |-> Append(acc.args, value),
     argPosition |-> acc.argPosition + 1]

\* addField without its tests for the zero value.
addFieldAlways(acc, value, fieldName) ==
    [setFields |-> Append(acc.setFields,
                          [col |-> fieldName, ph |-> acc.argPosition]),
     args |-> Append(acc.args, value),
     argPosition |-> acc.argPosition + 1]

\* The closure addField: a type switch on the value; a time is added when
\* it is not the zero time, a string when it is not empty, any other value
\* when it is not nil.
addField(acc, value, fieldName) ==
    CASE value.type = "time.Time" ->
            IF value.v # ZeroTime THEN AppendField(acc, value, fieldName) ELSE acc
      [] value.type = "string" ->
            IF value.v # "" THEN AppendField(acc, value, fieldName) ELSE acc
      [] OTHER ->
            IF value.type # "nil" THEN AppendField(acc, value, fieldName) ELSE acc

\* The sixteen calls of addField, from call i on.
RECURSIVE AddFields(_, _, _)
AddFields(acc, identity, i) ==
    IF i > Len(FieldOrder) THEN acc
    ELSE AddFields(addField(acc,
                            Iface(GoType(FieldOrder[i][1]), identity[FieldOrder[i][1]]),
                            FieldOrder[i][2]),
                   identity, i + 1)

\* The metadata step taking a map with no key for an absent one.
AddMetaDataNonEmpty(acc, identity) ==
    IF DOMAIN identity.MetaData.kv # {}
    THEN LET m == Marshal(identity.MetaData)
         IN  IF ~m.ok THEN [ok |-> FALSE, acc |-> acc]
             ELSE [ok |-> TRUE,
                   acc |-> [setFields |-> Append(acc.setFields,
                                                 [col |-> "meta_data",
                                                  ph |-> acc.argPosition]),
                            args |-> Append(acc.args, Iface("[]byte", m.doc)),
                            argPosition |-> acc.argPosition + 1]]
    ELSE [ok |-> TRUE, acc |-> acc]

\* The metadata step: a non-nil map is marshalled and appended as meta_data.
AddMetaData(acc, identity) ==
    IF ~identity.MetaData.isNil
    THEN LET m == Marshal(identity.MetaData)
         IN  IF ~m.ok THEN [ok |-> FALSE, acc |-> acc]
             ELSE [ok |-> TRUE,
                   acc |-> AppendField(acc, Iface("[]byte", m.doc), "meta_data")]
    ELSE [ok |-> TRUE, acc |-> acc]

\* The UPDATE statement and its arguments: the SET list joined, the WHERE
\* placeholder at argPosition, the IdentityID appended as the last argument.
UpdateStmt(acc, identity) ==
    Stmt("UPDATE", <<>>, acc.setFields, acc.argPosition,
         Append(acc.args, Iface("string", identity.IdentityID)))

Outcome(table, e, r, s, t) ==
    [rows |-> table, err |-> e, ret |-> r, stmts |-> s, txLog |-> t]

NoRet == [some |-> FALSE, val |-> ZeroIdentity, list |-> <<>>]
RetVal(identity) == [some |-> TRUE, val |-> identity, list |-> <<>>]
RetList(l) == [some |-> TRUE, val |-> ZeroIdentity, list |-> l]

\* UpdateIdentity without the test of rowsAffected.
UpdateOutcomeNoRowCheck(table, identity, fault) ==
    LET b == AddMetaData(AddFields(NoFields, identity, 1), identity)
        q == UpdateStmt(b.acc, identity)
        r == ExecUpdate(table, q)
    IN  IF ~b.ok THEN Outcome(table, "InternalServer", NoRet, <<>>, <<>>)
        ELSE IF Len(b.acc.setFields) = 0
        THEN Outcome(table, "BadRequest", NoRet, <<>>, <<>>)
        ELSE IF fault = "exec" \/ ~ValidUpdate(q)
        THEN Outcome(table, "InternalServer", NoRet, <<q>>, <<>>)
        ELSE IF fault = "rowsAffected"
        THEN Outcome(r.table, "InternalServer", NoRet, <<q>>, <<>>)
        ELSE Outcome(r.table, "nil", NoRet, <<q>>, <<>>)

\* UpdateIdentity without the early return on an empty SET list.
UpdateOutcomeNoEmptyCheck(table, identity, fault) ==
    LET b == AddMetaData(AddFields(NoFields, identity, 1), identity)
        q == UpdateStmt(b.acc, identity)
        r == ExecUpdate(table, q)
    IN  IF ~b.ok THEN Outcome(table, "InternalServer", NoRet, <<>>, <<>>)
        ELSE IF fault = "exec" \/ ~ValidUpdate(q)
        THEN Outcome(table, "InternalServer", NoRet, <<q>>, <<>>)
        ELSE IF fault = "rowsAffected"
        THEN Outcome(r.table, "InternalServer", NoRet, <<q>>, <<>>)
        ELSE IF r.affected = 0
        THEN Outcome(r.table, "NotFound", NoRet, <<q>>, <<>>)
        ELSE Outcome(r.table, "nil", NoRet, <<q>>, <<>>)

\* UpdateIdentity on the table, with the fault the connection injects.
UpdateOutcome(table, identity, fault) ==
    LET b == AddMetaData(AddFields(NoFields, identity, 1), identity)
        q == UpdateStmt(b.acc, identity)
        r == ExecUpdate(table, q)
    IN  IF ~b.ok THEN Outcome(table, "InternalServer", NoRet, <<>>, <<>>)
        ELSE IF Len(b.acc.setFields) = 0
        THEN Outcome(table, "BadRequest", NoRet, <<>>, <<>>)
        ELSE IF fault = "exec" \/ ~ValidUpdate(q)
        THEN Outcome(table, "InternalServer", NoRet, <<q>>, <<>>)
        ELSE IF fault = "rowsAffected"
        THEN Outcome(r.table, "InternalServer", NoRet, <<q>>, <<>>)
        ELSE IF r.affected = 0
        THEN Outcome(r.table, "NotFound", NoRet, <<q>>, <<>>)
        ELSE Outcome(r.table, "nil", NoRet, <<q>>, <<>>)

----------------------------------------------------------------------------
(* CreateIdentity *)

\* model.GenerateUUIDWithSuffix("idt"): an identifier no earlier call returned.
GenerateUUIDWithSuffix(n) == n

\* The INSERT statement and its nineteen arguments.
InsertStmt(identity, metaDataJSON) ==
    Stmt("INSERT", InsertCols, <<>>, 0,
         [i \in 1..(Len(InsertFields) + 1) |->
            IF i <= Len(InsertFields)
            THEN Iface(IF InsertFields[i] \in {"DOB", "CreatedAt"}
                       THEN "time.Time" ELSE "string",
                       identity[InsertFields[i]])
            ELSE Iface("[]byte", metaDataJSON)])

\* CreateIdentity keeping a CreatedAt the caller has set.
CreateOutcomeKeepsCreatedAt(table, identity, id, now, fault) ==
    LET m == Marshal(identity.MetaData)
        created == [identity EXCEPT
                       !.IdentityID = id,
                       !.CreatedAt = IF identity.CreatedAt # ZeroTime
                                     THEN identity.CreatedAt ELSE now]
        q == InsertStmt(created, m.doc)
    IN  IF ~m.ok THEN Outcome(table, "InternalServer", RetVal(identity), <<>>, <<>>)
        ELSE IF fault = "exec"
        THEN Outcome(table, "InternalServer", RetVal(created), <<q>>, <<>>)
        ELSE Outcome(ExecInsert(table, q), "nil", RetVal(created), <<q>>, <<>>)

\* CreateIdentity with the identifier the generator returns and the reading
\* of the clock.
CreateOutcome(table, identity, id, now, fault) ==
    LET m == Marshal(identity.MetaData)
        created == [identity EXCEPT !.IdentityID = id, !.CreatedAt = now]
        q == InsertStmt(created, m.doc)
    IN  IF ~m.ok THEN Outcome(table, "InternalServer", RetVal(identity), <<>>, <<>>)
        ELSE IF fault = "exec"
        THEN Outcome(table, "InternalServer", RetVal(created), <<q>>, <<>>)
        ELSE Outcome(ExecInsert(table, q), "nil", RetVal(created), <<q>>, <<>>)

----------------------------------------------------------------------------
(* GetIdentityByID, GetAllIdentities, DeleteIdentity *)

SelectStmt(id) == Stmt("SELECT", SelectCols, <<>>, 1, <<Iface("string", id)>>)
SelectAllStmt == Stmt("SELECT", SelectCols, <<>>, 0, <<>>)
DeleteStmt(id) == Stmt("DELETE", <<>>, <<>>, 1, <<Iface("string", id)>>)

\* The bytes Scan leaves in metaDataJSON: the column, unless the row read
\* holds no JSON document there (fault "unmarshal").
ScannedJSON(row, fault) ==
    IF fault = "unmarshal" THEN InvalidDoc ELSE Scan(row).metaDataJSON

\* Scan and Unmarshal of one row: the identity, or the failure.
Decode(row, fault) ==
    LET u == Unmarshal(ScannedJSON(row, fault))
    IN  IF fault = "scan" THEN [ok |-> FALSE, val |-> ZeroIdentity]
        ELSE IF ~u.ok THEN [ok |-> FALSE, val |-> ZeroIdentity]
        ELSE [ok |-> TRUE,
              val |-> [Scan(row).identity EXCEPT !.MetaData = u.val]]

\* GetIdentityByID without the test for sql.ErrNoRows.
GetOutcomeNoRowsInternal(table, id, fault) ==
    LET q == SelectStmt(id)
        d == Decode(table[id], fault)
    IN  IF fault = "begin"
        THEN Outcome(table, "InternalServer", NoRet, <<>>, <<>>)
        ELSE IF fault = "scan" \/ id \notin DOMAIN table
        THEN Outcome(table, "InternalServer", NoRet, <<q>>, <<"BeginTx", "Rollback">>)
        ELSE IF ~d.ok
        THEN Outcome(table, "InternalServer", NoRet, <<q>>, <<"BeginTx", "Rollback">>)
        ELSE IF fault = "commit"
        THEN Outcome(table, "InternalServer", NoRet, <<q>>, <<"BeginTx", "Commit">>)
        ELSE Outcome(table, "nil", RetVal(d.val), <<q>>, <<"BeginTx", "Commit">>)

\* GetIdentityByID without the Rollback when Unmarshal fails.
GetOutcomeNoRollback(table, id, fault) ==
    LET q == SelectStmt(id)
        d == Decode(table[id], fault)
    IN  IF fault = "begin"
        THEN Outcome(table, "InternalServer", NoRet, <<>>, <<>>)
        ELSE IF fault = "scan"
        THEN Outcome(table, "InternalServer", NoRet, <<q>>, <<"BeginTx", "Rollback">>)
        ELSE IF id \notin DOMAIN table
        THEN Outcome(table, "NotFound", NoRet, <<q>>, <<"BeginTx", "Rollback">>)
        ELSE IF ~d.ok
        THEN Outcome(table, "InternalServer", NoRet, <<q>>, <<"BeginTx">>)
        ELSE IF fault = "commit"
        THEN Outcome(table, "InternalServer", NoRet, <<q>>, <<"BeginTx", "Commit">>)
        ELSE Outcome(table, "nil", RetVal(d.val), <<q>>, <<"BeginTx", "Commit">>)

\* GetIdentityByID: BeginTx, the SELECT, Scan, Unmarshal, Commit, with a
\* Rollback where the code calls it.
GetOutcome(table, id, fault) ==
    LET q == SelectStmt(id)
        d == Decode(table[id], fault)
    IN  IF fault = "begin"
        THEN Outcome(table, "InternalServer", NoRet, <<>>, <<>>)
        ELSE IF fault = "scan"
        THEN Outcome(table, "InternalServer", NoRet, <<q>>, <<"BeginTx", "Rollback">>)
        ELSE IF id \notin DOMAIN table
        THEN Outcome(table, "NotFound", NoRet, <<q>>, <<"BeginTx", "Rollback">>)
        ELSE IF ~d.ok
        THEN Outcome(table, "InternalServer", NoRet, <<q>>, <<"BeginTx", "Rollback">>)
        ELSE IF fault = "commit"
        THEN Outcome(table, "InternalServer", NoRet, <<q>>, <<"BeginTx", "Commit">>)
        ELSE Outcome(table, "nil", RetVal(d.val), <<q>>, <<"BeginTx", "Commit">>)

\* GetAllIdentities over the rows in the order the query returned them.
GetAllOutcome(table, order, fault) ==
    LET ds == [i \in 1..Len(order) |-> Decode(table[order[i]], fault)]
    IN  IF fault = "query"
        THEN Outcome(table, "InternalServer", NoRet, <<SelectAllStmt>>, <<>>)
        ELSE IF \E i \in 1..Len(order) : ~ds[i].ok
        THEN Outcome(table, "InternalServer", NoRet, <<SelectAllStmt>>, <<>>)
        ELSE IF fault = "iter"
        THEN Outcome(table, "InternalServer", NoRet, <<SelectAllStmt>>, <<>>)
        ELSE Outcome(table, "nil",
                     RetList([i \in 1..Len(order) |-> ds[i].val]),
                     <<SelectAllStmt>>, <<>>)

DeleteOutcome(table, id, fault) ==
    LET q == DeleteStmt(id)
        r == ExecDelete(table, id)
    IN  IF fault = "exec"
        THEN Outcome(table, "InternalServer", NoRet, <<q>>, <<>>)
        ELSE IF fault = "rowsAffected"
        THEN Outcome(r.table, "InternalServer", NoRet, <<q>>, <<>>)
        ELSE IF r.affected = 0
        THEN Outcome(r.table, "NotFound", NoRet, <<q>>, <<>>)
        ELSE Outcome(r.table, "nil", NoRet, <<q>>, <<>>)

----------------------------------------------------------------------------
(* Inputs *)

\* A model.Identity with the given IdentityID, CreatedAt and MetaData, the
\* fields of flds set and every other field zero.
Ident(id, createdAt, flds, meta) ==
    [f \in DOMAIN ZeroIdentity |->
        CASE f = "IdentityID" -> id
          [] f = "CreatedAt" -> createdAt
          [] f = "MetaData" -> meta
          [] f \in DOMAIN flds -> flds[f]
          [] OTHER -> ZeroIdentity[f]]

NoFlds == [f \in {} |-> ""]

\* Every updatable field set: the strings to v, DOB to d.
AllFlds(v, d) ==
    [f \in StringFields \cup {"DOB"} |-> IF f = "DOB" THEN d ELSE v]

EmptyMap == MakeMap(EmptyKV)
IntMap == MakeMap("a" :> Iface("int", "1"))
StringMap == MakeMap("b" :> Iface("string", "x"))
ChanMap == MakeMap("a" :> Iface("chan", ""))

\* A time no reading of the clock equals.
OtherTime == MaxTime + 1

Ids == 0..MaxIds

\* The identities CreateIdentity is called with: the person of the spec's
\* example with nil metadata; every field set, metadata with an int, and
\* an IdentityID and a CreatedAt of the caller's; no field set and empty
\* metadata; metadata that cannot be marshalled.
CreateInputs ==
    { Ident(0, ZeroTime, ("FirstName" :> "A") @@ ("LastName" :> "B"), NilMap),
      Ident(1, OtherTime, AllFlds("D", OtherTime), IntMap),
      Ident(0, ZeroTime, NoFlds, EmptyMap),
      Ident(0, ZeroTime, NoFlds, ChanMap) }

\* The identities UpdateIdentity is called with in Spec: only an ID; the
\* spec's example of a partial update, carrying a CreatedAt of the
\* caller's; metadata that cannot be marshalled.
UpdateInputs ==
    { Ident(id, ZeroTime, NoFlds, NilMap) : id \in Ids } \cup
    { Ident(id, OtherTime, ("FirstName" :> "C"), NilMap) : id \in Ids } \cup
    { Ident(id, ZeroTime, NoFlds, ChanMap) : id \in Ids }

\* The identities UpdateIdentity is called with in SpecUpdate.
WideUpdateInputs ==
    { Ident(id, ZeroTime, NoFlds, NilMap) : id \in Ids } \cup
    { Ident(id, OtherTime, ("FirstName" :> "C"), NilMap) : id \in Ids } \cup
    { Ident(id, ZeroTime, ("DOB" :> 1) @@ ("City" :> "E"), StringMap) : id \in Ids } \cup
    { Ident(id, ZeroTime, NoFlds, EmptyMap) : id \in Ids } \cup
    { Ident(id, ZeroTime, ("LastName" :> "F"), ChanMap) : id \in Ids }

\* The identities the statement builder is run on in SpecBuild: every
\* subset of the sixteen fields set, with and without metadata.
BuildInputs ==
    { Ident(1, ZeroTime,
            [f \in S |-> IF f = "DOB" THEN 1 ELSE "A"], m) :
        S \in SUBSET (StringFields \cup {"DOB"}), m \in {NilMap, IntMap} }

----------------------------------------------------------------------------
(* The handlers as actions *)

Req(id, identity, fault) == [id |-> id, identity |-> identity, fault |-> fault]

Record(name, r, o) ==
    /\ op = "idle"
    /\ op' = name
    /\ req' = r
    /\ rows' = o.rows
    /\ err' = o.err
    /\ ret' = o.ret
    /\ stmts' = o.stmts
    /\ txLog' = o.txLog

Without(f, id) == [i \in DOMAIN f \ {id} |-> f[i]]

CreateIdentity(identity, fault) ==
    /\ nextId <= MaxIds
    /\ LET m == Marshal(identity.MetaData)
           id == GenerateUUIDWithSuffix(nextId)
           o == CreateOutcome(rows, identity, id, clock, fault)
       IN  /\ Record("CreateIdentity", Req(0, identity, fault), o)
           /\ nextId' = IF m.ok THEN nextId + 1 ELSE nextId
           /\ fresh' = IF o.err = "nil"
                       THEN [i \in DOMAIN fresh \cup {id} |->
                               IF i = id THEN o.ret.val ELSE fresh[i]]
                       ELSE fresh
    /\ UNCHANGED <<clock, deleted>>

GetIdentityByID(id, fault) ==
    /\ Record("GetIdentityByID", Req(id, ZeroIdentity, fault),
              GetOutcome(rows, id, fault))
    /\ UNCHANGED <<nextId, clock, deleted, fresh>>

GetAllIdentities(order, fault) ==
    /\ Record("GetAllIdentities", Req(0, ZeroIdentity, fault),
              GetAllOutcome(rows, order, fault))
    /\ UNCHANGED <<nextId, clock, deleted, fresh>>

UpdateIdentity(identity, fault) ==
    /\ Record("UpdateIdentity", Req(identity.IdentityID, identity, fault),
              UpdateOutcome(rows, identity, fault))
    /\ fresh' = Without(fresh, identity.IdentityID)
    /\ UNCHANGED <<nextId, clock, deleted>>

DeleteIdentity(id, fault) ==
    /\ LET o == DeleteOutcome(rows, id, fault)
       IN  /\ Record("DeleteIdentity", Req(id, ZeroIdentity, fault), o)
           /\ deleted' = IF o.err = "nil" THEN deleted \cup {id} ELSE deleted
    /\ fresh' = Without(fresh, id)
    /\ UNCHANGED <<nextId, clock>>

\* The caller takes the result; the next call can start.
Return ==
    /\ op # "idle"
    /\ op' = "idle"
    /\ req' = Req(0, ZeroIdentity, "none")
    /\ err' = "nil"
    /\ ret' = NoRet
    /\ stmts' = <<>>
    /\ txLog' = <<>>
    /\ UNCHANGED <<rows, nextId, clock, deleted, fresh>>

\* Time passes.
Tick ==
    /\ op = "idle"
    /\ clock < MaxTime
    /\ clock' = clock + 1
    /\ UNCHANGED <<rows, nextId, deleted, fresh, op, req, err, ret, stmts, txLog>>

EmptyTable == [i \in {} |-> [c \in Columns |-> ""]]
NoIdentities == [i \in {} |-> ZeroIdentity]

Init ==
    /\ rows = EmptyTable
    /\ nextId = 1
    /\ clock = 1
    /\ deleted = {}
    /\ fresh = NoIdentities
    /\ op = "idle"
    /\ req = Req(0, ZeroIdentity, "none")
    /\ err = "nil"
    /\ ret = NoRet
    /\ stmts = <<>>
    /\ txLog = <<>>

Next ==
    \/ \E identity \in CreateInputs, fault \in {"none", "exec"} :
          CreateIdentity(identity, fault)
    \/ \E id \in Ids, fault \in {"none", "begin", "scan", "unmarshal", "commit"} :
          GetIdentityByID(id, fault)
    \/ \E order \in QueryAll(rows),
          fault \in {"none", "query", "scan", "unmarshal", "iter"} :
          GetAllIdentities(order, fault)
    \/ \E identity \in UpdateInputs, fault \in {"none", "exec"} :
          UpdateIdentity(identity, fault)
    \/ \E id \in Ids, fault \in {"none", "exec", "rowsAffected"} :
          DeleteIdentity(id, fault)
    \/ Return
    \/ Tick

Spec == Init /\ [][Next]_vars

\* Creates and updates only, the clock standing still, with the wider
\* inputs of UpdateIdentity.
NextUpdate ==
    \/ \E identity \in CreateInputs : CreateIdentity(identity, "none")
    \/ \E identity \in WideUpdateInputs, fault \in {"none", "exec", "rowsAffected"} :
          UpdateIdentity(identity, fault)
    \/ Return

SpecUpdate == Init /\ [][NextUpdate]_vars

\* The statement UpdateIdentity builds, for every input of BuildInputs, on
\* the empty table.
InitBuild ==
    /\ rows = EmptyTable
    /\ nextId = 1
    /\ clock = 1
    /\ deleted = {}
    /\ fresh = NoIdentities
    /\ op = "idle"
    /\ \E identity \in BuildInputs : req = Req(identity.IdentityID, identity, "none")
    /\ err = "nil"
    /\ ret = NoRet
    /\ stmts = <<>>
    /\ txLog = <<>>

NextBuild == UpdateIdentity(req.identity, req.fault)

SpecBuild == InitBuild /\ [][NextBuild]_vars

----------------------------------------------------------------------------
(* Vocabulary of the claims *)

Handler(name) == op = "idle" /\ op' = name

\* No failure of the store or of the encoder is part of the call: no fault
\* is injected and the metadata of the input can be marshalled.
Sound(r) ==
    /\ r.fault = "none"
    /\ \A k \in DOMAIN r.identity.MetaData.kv : r.identity.MetaData.kv[k].type # "chan"

\* The updatable fields of the identity that are not at their zero value.
NonZeroFields(identity) ==
    {i \in 1..Len(FieldOrder) : identity[FieldOrder[i][1]] # ZeroIdentity[FieldOrder[i][1]]}

\* The identity carries only an ID.
OnlyID(identity) == NonZeroFields(identity) = {} /\ identity.MetaData.isNil

\* Two metadata maps are the same mapping: both nil or both not, the same
\* keys, and under each key values that are the same JSON value.
SameMeta(m1, m2) ==
    /\ m1.isNil = m2.isNil
    /\ DOMAIN m1.kv = DOMAIN m2.kv
    /\ \A k \in DOMAIN m1.kv :
          /\ (m1.kv[k].type = "string") = (m2.kv[k].type = "string")
          /\ m1.kv[k].v = m2.kv[k].v

\* Two identities are equal in every field, the metadata as mappings.
SameIdentity(a, b) ==
    /\ \A f \in DOMAIN ZeroIdentity \ {"MetaData"} : a[f] = b[f]
    /\ SameMeta(a.MetaData, b.MetaData)

\* The document stored in meta_data is exactly the mapping m.
StoresMeta(doc, m) ==
    /\ doc.kind = "object"
    /\ DOMAIN doc.members = DOMAIN m.kv
    /\ \A k \in DOMAIN m.kv :
          /\ (doc.members[k].type = "string") = (m.kv[k].type = "string")
          /\ doc.members[k].v = m.kv[k].v

----------------------------------------------------------------------------
(* C1 *)

\* C1 as stated: for an id that is no stored row's identity_id,
\* GetIdentityByID, UpdateIdentity of any identity carrying it and
\* DeleteIdentity each return NotFound and leave the rows as they were.
C1_AnyUpdateNotFound ==
    [][ (/\ \/ Handler("GetIdentityByID")
            \/ Handler("UpdateIdentity")
            \/ Handler("DeleteIdentity")
         /\ req'.id \notin DOMAIN rows
         /\ Sound(req'))
        => (err' = "NotFound" /\ rows' = rows) ]_vars

\* C1 amended: for an id that is no stored row's identity_id,
\* GetIdentityByID, DeleteIdentity, and UpdateIdentity of an identity that
\* carries it and at least one qualifying field, each return NotFound and
\* leave the rows as they were; UpdateIdentity of an identity carrying only
\* the ID returns BadRequest instead, the rows as they were too.
C1_NotFoundOnMissingID ==
    [][ (/\ \/ Handler("GetIdentityByID")
            \/ Handler("UpdateIdentity")
            \/ Handler("DeleteIdentity")
         /\ req'.id \notin DOMAIN rows
         /\ Sound(req'))
        => /\ rows' = rows
           /\ IF op' = "UpdateIdentity" /\ OnlyID(req'.identity)
              THEN err' = "BadRequest"
              ELSE err' = "NotFound" ]_vars

\* An UpdateIdentity with a field set, for an id that is not stored while
\* other rows are, has returned NotFound.
C1_Witness ==
    /\ op = "UpdateIdentity"
    /\ req.identity.FirstName = "C"
    /\ req.fault = "none"
    /\ req.id \notin DOMAIN rows
    /\ rows # EmptyTable
    /\ err = "NotFound"

----------------------------------------------------------------------------
(* C2 *)

\* C2: a GetIdentityByID of an identifier that CreateIdentity returned, made
\* before any update or delete of it, succeeds and returns an identity
\* equal in every field to the one CreateIdentity returned, the metadata
\* as an equal mapping.
C2_RoundTrip ==
    (op = "GetIdentityByID" /\ req.fault = "none" /\ req.id \in DOMAIN fresh)
        => /\ err = "nil"
           /\ ret.some
           /\ SameIdentity(ret.val, fresh[req.id])

\* A created identity with every field set and metadata holding a number
\* has been read back.
C2_Witness ==
    /\ op = "GetIdentityByID"
    /\ req.id \in DOMAIN fresh
    /\ err = "nil"
    /\ ret.val.City = "D"
    /\ ret.val.DOB = OtherTime
    /\ "a" \in DOMAIN ret.val.MetaData.kv

----------------------------------------------------------------------------
(* C3 *)

\* C3: after a successful UpdateIdentity on a stored row, every updatable
\* column whose input field is zero holds the value it held before, every
\* one whose input field is not zero holds the input value, and the rows
\* with another identity_id are unchanged.
C3_PartialUpdate ==
    [][ (Handler("UpdateIdentity") /\ err' = "nil")
        => /\ req'.id \in DOMAIN rows
           /\ DOMAIN rows' = DOMAIN rows
           /\ \A i \in 1..Len(FieldOrder) :
                 rows'[req'.id][FieldOrder[i][2]] =
                    IF i \in NonZeroFields(req'.identity)
                    THEN req'.identity[FieldOrder[i][1]]
                    ELSE rows[req'.id][FieldOrder[i][2]]
           /\ \A j \in DOMAIN rows \ {req'.id} : rows'[j] = rows[j] ]_vars

\* The spec's example, beside another row: FirstName "A", LastName "B"
\* updated with only FirstName "C".
C3_Witness ==
    /\ op = "UpdateIdentity"
    /\ err = "nil"
    /\ req.identity.FirstName = "C"
    /\ req.identity.LastName = ""
    /\ rows[req.id].first_name = "C"
    /\ rows[req.id].last_name = "B"
    /\ Cardinality(DOMAIN rows) = 2

----------------------------------------------------------------------------
(* C4 *)

\* C4: UpdateIdentity of an identity that carries only an ID returns
\* BadRequest, sends no statement and leaves every row as it was, whether
\* the ID is stored or not.
C4_EmptyUpdateRejected ==
    [][ (Handler("UpdateIdentity") /\ OnlyID(req'.identity))
        => /\ err' = "BadRequest"
           /\ stmts' = <<>>
           /\ rows' = rows ]_vars

\* An identity carrying only the ID of a stored row has been rejected.
C4_Witness ==
    /\ op = "UpdateIdentity"
    /\ OnlyID(req.identity)
    /\ req.id \in DOMAIN rows
    /\ err = "BadRequest"

----------------------------------------------------------------------------
(* C5 *)

\* C5: once DeleteIdentity(id) has returned nil, no row has that
\* identity_id again, whatever is called later, and no GetIdentityByID(id)
\* succeeds: it returns NotFound whenever the store answers.
C5_DeleteIsTerminal ==
    /\ \A id \in deleted : id \notin DOMAIN rows
    /\ (op = "GetIdentityByID" /\ req.id \in deleted)
          => /\ err # "nil"
             /\ req.fault = "none" => err = "NotFound"

\* A GetIdentityByID of a deleted identifier has returned NotFound.
C5_Witness ==
    /\ op = "GetIdentityByID"
    /\ req.id \in deleted
    /\ req.fault = "none"
    /\ err = "NotFound"

----------------------------------------------------------------------------
(* C6 *)

\* The identity e is the row r read back: every column in its field, the
\* metadata the mapping of the stored document.
IsRow(e, r) ==
    /\ e.IdentityID = r.identity_id
    /\ e.CreatedAt = r.created_at
    /\ \A i \in 1..Len(FieldOrder) : e[FieldOrder[i][1]] = r[FieldOrder[i][2]]
    /\ IF e.MetaData.isNil THEN r.meta_data.kind = "null"
       ELSE StoresMeta(r.meta_data, e.MetaData)

\* C6: a successful GetAllIdentities returns exactly the stored rows, each
\* once, CreatedAt never increasing along the result; on a table with no
\* rows it returns an empty result and no error.
C6_GetAllOrdered ==
    (op = "GetAllIdentities")
        => /\ err = "nil"
              => /\ Len(ret.list) = Cardinality(DOMAIN rows)
                 /\ {ret.list[i].IdentityID : i \in 1..Len(ret.list)} = DOMAIN rows
                 /\ \A i \in 1..Len(ret.list) :
                       IsRow(ret.list[i], rows[ret.list[i].IdentityID])
                 /\ \A i, j \in 1..Len(ret.list) :
                       i < j => ret.list[i].CreatedAt >= ret.list[j].CreatedAt
           /\ (rows = EmptyTable /\ req.fault \in {"none", "scan", "unmarshal"})
                 => (err = "nil" /\ ret.list = <<>>)
           /\ req.fault = "none" => err = "nil"

\* Two identities created at different times have come back, the later
\* one first.
C6_Witness ==
    /\ op = "GetAllIdentities"
    /\ err = "nil"
    /\ Len(ret.list) = 2
    /\ ret.list[1].CreatedAt > ret.list[2].CreatedAt

----------------------------------------------------------------------------
(* C7 *)

\* C7: CreateIdentity stores and returns the generated ID and the reading
\* of the clock, whatever IdentityID and CreatedAt its input carried; and
\* no call changes the identity_id or the created_at of a stored row.
C7_AssignedOnce ==
    [][ /\ (Handler("CreateIdentity") /\ err' = "nil")
           => /\ nextId \notin DOMAIN rows
              /\ DOMAIN rows' = DOMAIN rows \cup {nextId}
              /\ ret'.val.IdentityID = nextId
              /\ ret'.val.CreatedAt = clock
              /\ rows'[nextId].identity_id = nextId
              /\ rows'[nextId].created_at = clock
        /\ \A i \in DOMAIN rows \cap DOMAIN rows' :
              /\ rows'[i].identity_id = rows[i].identity_id
              /\ rows'[i].created_at = rows[i].created_at
        /\ Handler("UpdateIdentity") => DOMAIN rows' = DOMAIN rows ]_vars

\* A row created from an input that carried another IdentityID and another
\* CreatedAt has been updated with an input carrying another CreatedAt,
\* and holds the generated ID and a reading of the clock.
C7_Witness ==
    /\ op = "UpdateIdentity"
    /\ err = "nil"
    /\ req.id = 2
    /\ req.identity.CreatedAt = OtherTime
    /\ rows[2].city = "D"
    /\ rows[2].identity_id = 2
    /\ rows[2].created_at \in 1..MaxTime

----------------------------------------------------------------------------
(* C8 *)

\* C8: a successful UpdateIdentity whose metadata is not nil (an empty map
\* included) leaves meta_data holding exactly the caller's mapping; one
\* whose metadata is nil leaves meta_data as it was; and an update with
\* metadata that is not nil is never rejected as empty.
C8_MetadataReplaced ==
    [][ Handler("UpdateIdentity")
        => /\ err' = "nil"
              => IF req'.identity.MetaData.isNil
                 THEN rows'[req'.id].meta_data = rows[req'.id].meta_data
                 ELSE StoresMeta(rows'[req'.id].meta_data, req'.identity.MetaData)
           /\ ~req'.identity.MetaData.isNil => err' # "BadRequest" ]_vars

\* An update carrying nothing but an empty, non-nil map has succeeded on a
\* row created with metadata, and the row holds an object with no key.
C8_Witness ==
    /\ op = "UpdateIdentity"
    /\ err = "nil"
    /\ NonZeroFields(req.identity) = {}
    /\ req.identity.MetaData = EmptyMap
    /\ rows[req.id].city = "D"
    /\ rows[req.id].meta_data.kind = "object"
    /\ DOMAIN rows[req.id].meta_data.members = {}

----------------------------------------------------------------------------
(* C9 *)

OnlySelect == \A i \in 1..Len(stmts) : stmts[i].kind = "SELECT"

\* C9 as stated: once GetIdentityByID has begun its transaction, it ends
\* it before returning: one Commit when it returns the identity, a
\* Rollback on every failure, a failed Commit included; it writes nothing.
C9_RollbackOnEveryFailure ==
    (op = "GetIdentityByID" /\ txLog # <<>>)
        => /\ OnlySelect
           /\ IF err = "nil"
              THEN txLog = <<"BeginTx", "Commit">>
              ELSE txLog = <<"BeginTx", "Rollback">>

\* C9 amended: once GetIdentityByID has begun its transaction, it makes
\* exactly one call that ends it before returning: Commit when the row was
\* read and decoded, Rollback when no row was found, Scan failed or the
\* metadata could not be decoded. When that Commit fails the error is
\* returned with no Rollback after it. It sends only its SELECT and leaves
\* the rows as they were.
C9_TransactionEnded ==
    [][ Handler("GetIdentityByID")
        => /\ rows' = rows
           /\ \A i \in 1..Len(stmts') : stmts'[i].kind = "SELECT"
           /\ (txLog' = <<>>) = (req'.fault = "begin")
           /\ txLog' # <<>>
                => /\ err' = "nil" => txLog' = <<"BeginTx", "Commit">>
                   /\ (err' # "nil" /\ req'.fault # "commit")
                         => txLog' = <<"BeginTx", "Rollback">>
                   /\ (req'.fault = "commit" /\ req'.id \in DOMAIN rows)
                         => /\ txLog' = <<"BeginTx", "Commit">>
                            /\ err' = "InternalServer"
                   /\ txLog' \in {<<"BeginTx", "Commit">>,
                                  <<"BeginTx", "Rollback">>} ]_vars

\* A GetIdentityByID whose Commit failed has returned the error, Commit
\* being the last call on its transaction.
C9_Witness ==
    /\ op = "GetIdentityByID"
    /\ req.fault = "commit"
    /\ req.id \in DOMAIN rows
    /\ err = "InternalServer"
    /\ txLog = <<"BeginTx", "Commit">>

----------------------------------------------------------------------------
(* C10 *)

\* The canonical order of the columns UpdateIdentity may set.
CanonicalOrder ==
    <<"identity_type", "first_name", "last_name", "other_names", "gender",
      "dob", "email_address", "phone_number", "nationality",
      "organization_name", "category", "street", "country", "state",
      "post_code", "city", "meta_data">>

Position(col) == CHOOSE i \in 1..Len(CanonicalOrder) : CanonicalOrder[i] = col

\* The columns whose field qualifies in the identity.
Qualifying(identity) ==
    {FieldOrder[i][2] : i \in NonZeroFields(identity)} \cup
    (IF identity.MetaData.isNil THEN {} ELSE {"meta_data"})

\* The argument col is set to: the field's value, the marshalled metadata
\* for meta_data.
ArgumentFor(identity, col, doc) ==
    IF col = "meta_data" THEN StoresMeta(doc, identity.MetaData)
    ELSE doc = identity[FieldOrder[CHOOSE i \in 1..Len(FieldOrder) :
                                      FieldOrder[i][2] = col][1]]

\* C10: for an input with k >= 1 qualifying fields UpdateIdentity sends one
\* UPDATE whose SET entries are the qualifying columns in the canonical
\* order with placeholders $1..$k, whose WHERE uses $(k+1), and whose k+1
\* arguments are the values of the SET fields in that order, then the
\* IdentityID.
C10_StatementConstruction ==
    (op = "UpdateIdentity" /\ Sound(req) /\ Qualifying(req.identity) # {})
        => LET k == Cardinality(Qualifying(req.identity))
           IN  /\ Len(stmts) = 1
               /\ stmts[1].kind = "UPDATE"
               /\ Len(stmts[1].set) = k
               /\ \A i \in 1..k : stmts[1].set[i].ph = i
               /\ {stmts[1].set[i].col : i \in 1..k} = Qualifying(req.identity)
               /\ \A i, j \in 1..k :
                     i < j => Position(stmts[1].set[i].col) < Position(stmts[1].set[j].col)
               /\ stmts[1].where = k + 1
               /\ Len(stmts[1].args) = k + 1
               /\ \A i \in 1..k :
                     ArgumentFor(req.identity, stmts[1].set[i].col, stmts[1].args[i].v)
               /\ stmts[1].args[k + 1].v = req.identity.IdentityID

\* The statement for an input with all seventeen fields qualifying has
\* been sent.
C10_Witness ==
    /\ op = "UpdateIdentity"
    /\ Cardinality(Qualifying(req.identity)) = 17
    /\ Len(stmts) = 1
    /\ stmts[1].where = 18

====
